---- MODULE Spec2Model ----
(***************************************************************************)
(* loggifly-helper (src/app.py): a Flask application that receives webhook *)
(* notifications and writes them through Python's logging module to a log  *)
(* file, rotated by logging.handlers.RotatingFileHandler.                  *)
(*                                                                         *)
(* src/app.py holds two revisions of the program one after the other       *)
(* (lines 1-193 and lines 194-391).  The model follows the first one; the  *)
(* second differs in the LOG_LEVEL setting, in the "%(levelname)s" part of *)
(* the line prefix and in an extra DEBUG line, and is the same in          *)
(* parse_size, in the choice of the file handler, in webhook's parsing and *)
(* formatting and in stats.                                                *)
(*                                                                         *)
(* Strings that the code only concatenates are TLA+ strings; strings that  *)
(* the code inspects character by character (the size string) are          *)
(* sequences of one-character strings.                                     *)
(***************************************************************************)
EXTENDS Integers, Sequences, FiniteSets, TLC

(***************************************************************************)
(* Bounds of the model.                                                    *)
(***************************************************************************)
\* longest size string handed to parse_size
MaxSizeLen == 4
\* webhook requests the server receives in one run
MaxRequests == 2
\* request threads of the server that run at the same time
MaxThreads == 2
\* largest BACKUP_COUNT the configurations are drawn with
MaxBackupCount == 2

(***************************************************************************)
(* Size strings: parse_size and the Python built-ins it uses.              *)
(***************************************************************************)
Digits == <<"0", "1", "2", "3", "4", "5", "6", "7", "8", "9">>

\* the characters size strings are drawn from
SizeChars ==
    {"0", "1", "K", "M", "G", "B", "k", "m", "b", " ", ".", "-", "+", "_"}

SizeStrings == UNION {[1..n -> SizeChars] : n \in 0..MaxSizeLen}

IsDigit(c) == \E i \in 1..10 : Digits[i] = c

DigitValue(c) == (CHOOSE i \in 1..10 : Digits[i] = c) - 1

\* str.upper() on one character of SizeChars
UpperChar(c) ==
    CASE c = "k" -> "K"
      [] c = "m" -> "M"
      [] c = "b" -> "B"
      [] OTHER -> c

\* str.upper()
Upper(s) == [i \in 1..Len(s) |-> UpperChar(s[i])]

\* str.endswith(suffix)
EndsWith(s, suffix) ==
    /\ Len(s) >= Len(suffix)
    /\ SubSeq(s, Len(s) - Len(suffix) + 1, Len(s)) = suffix

\* s[:-2]
DropLast2(s) == SubSeq(s, 1, Len(s) - 2)

\* str.strip() as int() applies it to its argument
RECURSIVE LStrip(_)
LStrip(s) == IF s # <<>> /\ Head(s) = " " THEN LStrip(Tail(s)) ELSE s

RECURSIVE RStrip(_)
RStrip(s) ==
    IF s # <<>> /\ s[Len(s)] = " " THEN RStrip(SubSeq(s, 1, Len(s) - 1)) ELSE s

RECURSIVE DecimalValue(_)
DecimalValue(ds) ==
    IF ds = <<>> THEN 0
    ELSE 10 * DecimalValue(SubSeq(ds, 1, Len(ds) - 1)) + DigitValue(ds[Len(ds)])

ValueError == [ok |-> FALSE, error |-> "ValueError"]

\* Python integers are unbounded; the model checker's are 32 bits wide, and
\* 2 * 1024^3 is already beyond them.  An integer n is kept exactly as the
\* pair (hi, lo) with n = hi * 2^20 + lo and 0 <= lo < 2^20.
Limb == 1024 * 1024

Big(n) == [hi |-> n \div Limb, lo |-> n % Limb]

\* x * 1024
Mul1024(x) ==
    [hi |-> x.hi * 1024 + (x.lo * 1024) \div Limb, lo |-> (x.lo * 1024) % Limb]

Value(x) == [ok |-> TRUE, value |-> x]

\* the decimal digits int() accepts after the sign: digits, with single
\* underscores between them
DigitGroups(ds) ==
    /\ ds # <<>>
    /\ \A i \in 1..Len(ds) : IsDigit(ds[i]) \/ ds[i] = "_"
    /\ IsDigit(ds[1]) /\ IsDigit(ds[Len(ds)])
    /\ \A i \in 1..(Len(ds) - 1) : ~(ds[i] = "_" /\ ds[i + 1] = "_")

\* int(text) for text over SizeChars: surrounding whitespace is ignored, one
\* sign is allowed, digits must follow, anything else raises ValueError
int(text) ==
    LET t == RStrip(LStrip(text))
        signed == t # <<>> /\ Head(t) \in {"-", "+"}
        ds == IF signed THEN Tail(t) ELSE t
        n == DecimalValue(SelectSeq(ds, IsDigit))
    IN  IF DigitGroups(ds)
        THEN Value(Big(IF signed /\ Head(t) = "-" THEN 0 - n ELSE n))
        ELSE ValueError

\* parsed * 1024, the exception of int() passing through
Times1024(parsed) ==
    IF parsed.ok THEN Value(Mul1024(parsed.value)) ELSE parsed

\* a parse_size that takes KB for MB
parse_size_kb_as_mb(text) ==
    LET size_str == Upper(text)
    IN  IF EndsWith(size_str, <<"M", "B">>)
        THEN Times1024(Times1024(int(DropLast2(size_str))))
        ELSE IF EndsWith(size_str, <<"K", "B">>)
        THEN Times1024(Times1024(int(DropLast2(size_str))))
        ELSE IF EndsWith(size_str, <<"G", "B">>)
        THEN Times1024(Times1024(Times1024(int(DropLast2(size_str)))))
        ELSE int(size_str)

parse_size(text) ==
    LET size_str == Upper(text)
    IN  IF EndsWith(size_str, <<"M", "B">>)
        THEN Times1024(Times1024(int(DropLast2(size_str))))
        ELSE IF EndsWith(size_str, <<"K", "B">>)
        THEN Times1024(int(DropLast2(size_str)))
        ELSE IF EndsWith(size_str, <<"G", "B">>)
        THEN Times1024(Times1024(Times1024(int(DropLast2(size_str)))))
        ELSE int(size_str)

(***************************************************************************)
(* Text.  A str the program builds is a TLA+ string.  The one non-ASCII     *)
(* text of the model is DegreeText, "temp 40(degree sign)C (plus-minus)2", *)
(* written with "?" in the place of each of its two non-ASCII characters.  *)
(***************************************************************************)
DegreeText == "temp 40?C ?2"

\* len(s.encode("utf-8")) - len(s) of a field value: U+00B0 and U+00B1 take
\* two bytes each
Utf8Extra(s) == IF s = DegreeText THEN 2 ELSE 0

\* what json.dumps (ensure_ascii=True) writes between the quotes for a str
JsonEscape(s) == IF s = DegreeText THEN "temp 40\\u00b0C \\u00b12" ELSE s

\* json.dumps of a str
JsonStr(s) == "\"" \o JsonEscape(s) \o "\""

\* json.dumps of a dict whose values are already rendered: items is a
\* sequence of <<key, rendered value>> in insertion order
RECURSIVE JsonMembers(_)
JsonMembers(items) ==
    IF items = <<>> THEN ""
    ELSE JsonStr(items[1][1]) \o ": " \o items[1][2]
         \o (IF Len(items) > 1 THEN ", " ELSE "") \o JsonMembers(Tail(items))

JsonDict(items) == "{" \o JsonMembers(items) \o "}"

\* "".join(chars)
RECURSIVE Join(_)
Join(chars) == IF chars = <<>> THEN "" ELSE Head(chars) \o Join(Tail(chars))

\* str(b) of a bool
BoolStr(b) == IF b THEN "True" ELSE "False"

\* datetime.now().isoformat() and the Formatter's %(asctime)s: the clock is
\* read, never compared, and is held at one instant
NowIso == "2026-11-01T12:00:00.000000"

Asctime == "2026-11-01 12:00:00,000"

(***************************************************************************)
(* Configuration (lines 13-19).                                            *)
(***************************************************************************)
PORT == 5353

HOST == "0.0.0.0"

LOG_FILE == "/logs/loggifly-notifications.log"

\* LOG_FORMAT values: the three the code names and one it does not
LogFormats == {"detailed", "simple", "json", "fancy"}

\* a MAX_LOG_SIZE that int() rejects
BadSize == <<"1", ".", "5", "M", "B">>

\* MAX_LOG_SIZE values of the sink configurations: no limit to the library
\* (0), a limit that single lines reach (100), a limit that two request
\* lines stay one character short of (170)
SinkSizes == {<<"0">>, <<"1", "0", "0">>, <<"1", "7", "0">>}

Config(format, rotation, size, count) ==
    [LOG_FORMAT |-> format, LOG_ROTATION |-> rotation,
     MAX_LOG_SIZE |-> size, BACKUP_COUNT |-> count]

\* the configurations the server is started with
Configs ==
    {Config("detailed", TRUE, size, count) :
        size \in SinkSizes \ {<<"0">>}, count \in 0..MaxBackupCount}
    \cup {Config("detailed", TRUE, <<"0">>, 1),
          Config("detailed", TRUE, BadSize, 1),
          Config("detailed", FALSE, BadSize, 1)}

(***************************************************************************)
(* Requests.  A request is its Content-Type header and its body; a body is *)
(* one of: a JSON object (items: its members in order, keys distinct,      *)
(* values strings), JSON null, a non-empty JSON array, text that is not    *)
(* JSON, bytes that are not UTF-8.                                         *)
(***************************************************************************)
Body(kind, items, text) == [kind |-> kind, items |-> items, text |-> text]

Request(content_type, body) == [content_type |-> content_type, body |-> body]

NoRequest == Request("", Body("none", <<>>, ""))

\* the payload keys webhook reads, each with the value the model gives it
FieldValues ==
    << <<"container", "nginx">>, <<"keyword", "error">>,
       <<"keywords", "warn">>, <<"message", "disk full">>,
       <<"title", "Alert">>, <<"body", "details">>,
       <<"timestamp", "2026-01-01T00:00:00">> >>

\* the subsequence of items at the positions in keep
RECURSIVE Pick(_, _)
Pick(items, keep) ==
    IF items = <<>> THEN <<>>
    ELSE (IF Len(items) \in keep THEN Pick(SubSeq(items, 1, Len(items) - 1), keep)
                                      \o <<items[Len(items)]>>
          ELSE Pick(SubSeq(items, 1, Len(items) - 1), keep))

\* every JSON object over FieldValues: each subset of the fields present
ObjectBodies ==
    {Body("object", Pick(FieldValues, keep), "") :
        keep \in SUBSET (1..Len(FieldValues))}

OtherJsonBodies ==
    {Body("null", <<>>, ""), Body("array", <<>>, ""),
     Body("text", <<>>, "{\"container\": "), Body("undecodable", <<>>, "")}

TextBodies ==
    {Body("text", <<>>, "raw text"), Body("text", <<>>, DegreeText),
     Body("undecodable", <<>>, "")}

\* the requests of the webhook specification
AllRequests ==
    {Request("application/json", b) : b \in ObjectBodies \cup OtherJsonBodies}
    \cup {Request("text/plain", b) : b \in TextBodies}

Scenario1 ==
    Request("application/json",
            Body("object", Pick(FieldValues, {1, 2, 4}), ""))

\* the requests of the sink specification
SinkRequests ==
    {Scenario1,
     Request("text/plain", Body("text", <<>>, DegreeText)),
     Request("application/json", Body("text", <<>>, "{\"container\": "))}

(***************************************************************************)
(* webhook, lines 84-113: from the request to the call of the logger.      *)
(***************************************************************************)
\* 'application/json' in content_type
IsJsonType(content_type) == content_type = "application/json"

Raised(message) == [ok |-> FALSE, data |-> <<>>, error |-> message]

Parsed(data) == [ok |-> TRUE, data |-> data, error |-> ""]

\* str(e) of the BadRequest that request.get_json() raises
BadRequestText ==
    "400 Bad Request: The browser (or proxy) sent a request that this server could not understand."

\* request.get_json() or {}
get_json_or_empty(body) ==
    CASE body.kind = "object" -> Parsed(body.items)
      [] body.kind = "null" -> Parsed(<<>>)
      [] body.kind = "array" ->
            Raised("'list' object has no attribute 'get'")
      [] OTHER -> Raised(BadRequestText)

\* {'message': request.data.decode('utf-8')}
decode_text(body) ==
    IF body.kind = "undecodable"
    THEN Raised("'utf-8' codec can't decode byte 0xff in position 0: invalid start byte")
    ELSE Parsed(<< <<"message", body.text>> >>)

get_data(request) ==
    IF IsJsonType(request.content_type)
    THEN get_json_or_empty(request.body)
    ELSE decode_text(request.body)

\* data.get(key, default)
RECURSIVE get(_, _, _)
get(data, key, default) ==
    IF data = <<>> THEN default
    ELSE IF data[1][1] = key THEN data[1][2]
    ELSE get(Tail(data), key, default)

container_of(data) == get(data, "container", "unknown")

keyword_of(data) == get(data, "keyword", get(data, "keywords", "unknown"))

message_of(data) ==
    get(data, "message", get(data, "title", get(data, "body", "No message")))

timestamp_of(data) == get(data, "timestamp", NowIso)

Entry(text, extra) == [text |-> text, extra |-> extra]

NoEntry == Entry("", 0)

\* json.dumps(data) of the payload dict
RawData(data) ==
    JsonDict([i \in 1..Len(data) |-> <<data[i][1], JsonStr(data[i][2])>>])

DetailedEntry(c, k, m) ==
    "Container: " \o c \o " | Keyword: " \o k \o " | Message: " \o m

SimpleEntry(c, k, m) == c \o " | " \o k \o " | " \o m

\* a format_entry whose default branch is the simple form
format_entry_default_simple(LOG_FORMAT, data) ==
    LET c == container_of(data)
        k == keyword_of(data)
        m == message_of(data)
        extra == Utf8Extra(c) + Utf8Extra(k) + Utf8Extra(m)
    IN  IF LOG_FORMAT = "json"
        THEN Entry(JsonDict(<< <<"timestamp", JsonStr(timestamp_of(data))>>,
                               <<"container", JsonStr(c)>>,
                               <<"keyword", JsonStr(k)>>,
                               <<"message", JsonStr(m)>>,
                               <<"raw_data", RawData(data)>> >>), 0)
        ELSE Entry(SimpleEntry(c, k, m), extra)

\* log_entry, with the bytes its UTF-8 encoding adds to its length
format_entry(LOG_FORMAT, data) ==
    LET c == container_of(data)
        k == keyword_of(data)
        m == message_of(data)
        extra == Utf8Extra(c) + Utf8Extra(k) + Utf8Extra(m)
    IN  IF LOG_FORMAT = "json"
        THEN Entry(JsonDict(<< <<"timestamp", JsonStr(timestamp_of(data))>>,
                               <<"container", JsonStr(c)>>,
                               <<"keyword", JsonStr(k)>>,
                               <<"message", JsonStr(m)>>,
                               <<"raw_data", RawData(data)>> >>), 0)
        ELSE IF LOG_FORMAT = "simple"
        THEN Entry(SimpleEntry(c, k, m), extra)
        ELSE Entry(DetailedEntry(c, k, m), extra)

\* error_msg of the except branch
error_entry(message) == Entry("Error processing webhook: " \o message, 0)

(***************************************************************************)
(* The file handler of setup_logging (lines 29-63): its Formatter and the  *)
(* logging.handlers.RotatingFileHandler / logging.FileHandler it builds.   *)
(* The directory of LOG_FILE holds the files 0 (LOG_FILE itself) and       *)
(* 1..MaxBackupCount + 1 (LOG_FILE.1, ...); a file is the sequence of its  *)
(* lines or Absent.  A line is the text written before the newline, the    *)
(* bytes its encoding adds, and the call it came from.                     *)
(***************************************************************************)
Absent == << [rid |-> -1, text |-> "absent", extra |-> 0] >>

Line(rid, text, extra) == [rid |-> rid, text |-> text, extra |-> extra]

\* logging.Formatter(log_format).format(record)
format_record(LOG_FORMAT, entry) ==
    IF LOG_FORMAT = "json"
    THEN Entry("{\"timestamp\": \"" \o Asctime \o "\", \"message\": "
               \o entry.text \o "}", entry.extra)
    ELSE Entry(Asctime \o " - " \o entry.text, entry.extra)

\* len(msg) of shouldRollover, msg = "%s\n" % self.format(record): characters
Chars(line) == Len(line.text) + 1

\* the bytes the stream writes for the line and its terminator
Bytes(line) == Len(line.text) + line.extra + 1

RECURSIVE SizeOf(_)
SizeOf(lines) == IF lines = <<>> THEN 0 ELSE Bytes(Head(lines)) + SizeOf(Tail(lines))

FileIds == 0..(MaxBackupCount + 1)

Exists(fs, i) == fs[i] # Absent

\* os.path.getsize(LOG_FILE) if os.path.exists(LOG_FILE) else 0
getsize(fs, i) == IF Exists(fs, i) THEN SizeOf(fs[i]) ELSE 0

NoHandler == [kind |-> "none", maxBytes |-> Big(0), backupCount |-> 0]

RotatingFileHandler(maxBytes, backupCount) ==
    [kind |-> "RotatingFileHandler", maxBytes |-> maxBytes,
     backupCount |-> backupCount]

\* a plain handler that rotates all the same
FileHandler_rotating == RotatingFileHandler(Big(100), 1)

FileHandler == [kind |-> "FileHandler", maxBytes |-> Big(0), backupCount |-> 0]

\* x > 0 and x >= y on exact integers
BigPositive(x) == x.hi > 0 \/ (x.hi = 0 /\ x.lo > 0)

BigGe(x, y) == x.hi > y.hi \/ (x.hi = y.hi /\ x.lo >= y.lo)

\* RotatingFileHandler.shouldRollover: LOG_FILE is a regular file, the
\* stream is positioned at its end.  The library of Python 3.11 rolls an
\* empty file over like any other; later releases never roll an empty file
\* over (rolls_empty is which of the two the process runs on).
shouldRollover(h, fs, line, rolls_empty) ==
    /\ h.kind = "RotatingFileHandler"
    /\ BigPositive(h.maxBytes)
    /\ rolls_empty \/ getsize(fs, 0) > 0
    /\ BigGe(Big(getsize(fs, 0) + Chars(line)), h.maxBytes)

\* a rollover that replaces LOG_FILE.1 and shifts nothing
doRollover_no_shift(h, fs) ==
    IF h.backupCount > 0
    THEN [fs EXCEPT ![0] = <<>>, ![1] = fs[0]]
    ELSE fs

\* RotatingFileHandler.doRollover: LOG_FILE.i becomes LOG_FILE.(i+1) for
\* i = backupCount - 1 .. 1, replacing what is there, LOG_FILE becomes
\* LOG_FILE.1 and a new LOG_FILE is opened; with backupCount = 0 the stream
\* is closed and reopened for append on the same file
doRollover(h, fs) ==
    IF h.backupCount > 0
    THEN [i \in FileIds |->
            IF i = 0 THEN <<>>
            ELSE IF i = 1 THEN fs[0]
            ELSE IF i <= h.backupCount
                 THEN (IF Exists(fs, i - 1) THEN fs[i - 1]
                       ELSE IF i < h.backupCount THEN Absent
                       ELSE fs[i])
            ELSE fs[i]]
    ELSE fs

\* an emit that looks at the size again after a rollover
after_rollover_retry(h, fs, line, rolls_empty) ==
    IF shouldRollover(h, fs, line, rolls_empty) THEN "rollover" ELSE "write"

\* RotatingFileHandler.emit after doRollover: the record is written, the
\* size is not looked at again
after_rollover(h, fs, line, rolls_empty) == "write"

\* StreamHandler.emit: stream.write(msg + terminator), flush
write(fs, line) == [fs EXCEPT ![0] = Append(fs[0], line)]

(***************************************************************************)
(* The lines the main program logs before app.run (lines 188-191).         *)
(***************************************************************************)
MainLines(c) ==
    << "Starting LoggiFly Helper on " \o HOST \o ":" \o ToString(PORT),
       "Log configuration: file=" \o LOG_FILE \o ", format=" \o c.LOG_FORMAT,
       "Log rotation: enabled=" \o BoolStr(c.LOG_ROTATION) \o ", max_size="
           \o Join(c.MAX_LOG_SIZE) \o ", backups=" \o ToString(c.BACKUP_COUNT),
       "Ready to log ALL notifications from LoggiFly" >>

(***************************************************************************)
(* State.                                                                  *)
(***************************************************************************)
\* thread 0 is the main thread, the others serve requests
Workers == 1..MaxThreads

Threads == 0..MaxThreads

Requests == 1..MaxRequests

VARIABLES
    cfg,          \* the environment's configuration, lines 13-19
    rolls_empty,  \* whether the logging library rolls an empty file over
    proc,         \* "boot", "loaded", "main", "serving" or "failed"
    max_bytes,    \* what parse_size(MAX_LOG_SIZE) returned or raised
    handler,      \* file_handler of setup_logging
    files,        \* the directory of LOG_FILE: file id -> lines or Absent
    lock,         \* the holder of file_handler's lock, -1 when free
    th,           \* per thread: where it is in its logging call
    main_i,       \* how many of the main program's lines are logged
    started,      \* how many webhook requests have been received
    resp,         \* per request: the status answered, 0 before the answer
    \* history, read by the properties only
    acquired,     \* the requests' logging calls, in the order they took the lock
    rollovers,    \* how many times doRollover has run
    appended,     \* bytes written to LOG_FILE since it was last replaced
    dropped,      \* the calls whose line a rollover deleted with the oldest backup
    rolled_from,  \* the directory as the last doRollover found it
    last          \* the last emit: what it found, did and left

vars == <<cfg, rolls_empty, proc, max_bytes, handler, files, lock, th, main_i, started,
          resp, acquired, rollovers, appended, dropped, rolled_from, last>>

NotParsed == [ok |-> FALSE, error |-> "not parsed"]

Idle ==
    [pc |-> "idle", rid |-> 0, req |-> NoRequest, level |-> "", entry |-> "",
     line |-> Line(0, "", 0), status |-> 0, rolled |-> 0, before |-> 0,
     copies |-> 0]

NoEmit ==
    [rid |-> -1, req |-> NoRequest, level |-> "", status |-> 0,
     line |-> Line(0, "", 0), rolled |-> 0, wrote |-> FALSE, before |-> 0,
     after |-> 0, alone |-> FALSE, copies_before |-> 0, copies |-> 0]

InitWith(configs) ==
    /\ cfg \in configs
    /\ rolls_empty \in BOOLEAN
    /\ proc = "boot"
    /\ max_bytes = NotParsed
    /\ handler = NoHandler
    /\ files = [i \in FileIds |-> Absent]
    /\ lock = -1
    /\ th = [t \in Threads |-> Idle]
    /\ main_i = 0
    /\ started = 0
    /\ resp = [r \in Requests |-> 0]
    /\ acquired = <<>>
    /\ rollovers = 0
    /\ appended = 0
    /\ dropped = {}
    /\ rolled_from = [i \in FileIds |-> Absent]
    /\ last = NoEmit

Init == InitWith(Configs)

(***************************************************************************)
(* Start of the process.                                                   *)
(***************************************************************************)
\* setup_logging, lines 21-77, called at line 79: parse_size runs only under
\* LOG_ROTATION, its ValueError ends the process; building either handler
\* opens LOG_FILE for append, which creates it
SetupLogging ==
    /\ proc = "boot"
    /\ IF cfg.LOG_ROTATION
       THEN LET parsed == parse_size(cfg.MAX_LOG_SIZE)
            IN  /\ max_bytes' = parsed
                /\ IF parsed.ok
                   THEN /\ handler' =
                             RotatingFileHandler(parsed.value, cfg.BACKUP_COUNT)
                        /\ files' = [files EXCEPT ![0] = <<>>]
                        /\ proc' = "loaded"
                   ELSE /\ proc' = "failed"
                        /\ UNCHANGED <<handler, files>>
       ELSE /\ handler' = FileHandler
            /\ files' = [files EXCEPT ![0] = <<>>]
            /\ proc' = "loaded"
            /\ UNCHANGED max_bytes
    /\ UNCHANGED <<cfg, rolls_empty, lock, th, main_i, started, resp, acquired, rollovers,
                   appended, dropped, rolled_from, last>>

\* the module is run as a script: line 187
RunMain ==
    /\ proc = "loaded"
    /\ proc' = "main"
    /\ UNCHANGED <<cfg, rolls_empty, max_bytes, handler, files, lock, th, main_i, started,
                   resp, acquired, rollovers, appended, dropped, rolled_from,
                   last>>

\* the module is imported by a WSGI server, which serves app: lines 187-193
\* do not run
Serve ==
    /\ proc = "loaded"
    /\ proc' = "serving"
    /\ UNCHANGED <<cfg, rolls_empty, max_bytes, handler, files, lock, th, main_i, started,
                   resp, acquired, rollovers, appended, dropped, rolled_from,
                   last>>

\* a call logger.info(text) or logger.error(text) by thread t, up to the
\* file handler's handle()
LogCall(t, rid, req, level, entry, status) ==
    LET formatted == format_record(cfg.LOG_FORMAT, entry)
    IN  th' = [th EXCEPT ![t] =
                 [pc |-> "emit", rid |-> rid, req |-> req, level |-> level,
                  entry |-> entry.text,
                  line |-> Line(rid, formatted.text, formatted.extra),
                  status |-> status, rolled |-> 0, before |-> 0,
                  copies |-> 0]]

\* lines 188-191, one logger.info each
MainLog ==
    /\ proc = "main"
    /\ th[0].pc = "idle"
    /\ main_i < Len(MainLines(cfg))
    /\ LogCall(0, 0, NoRequest, "INFO", Entry(MainLines(cfg)[main_i + 1], 0), 0)
    /\ UNCHANGED <<cfg, rolls_empty, proc, max_bytes, handler, files, lock, main_i, started,
                   resp, acquired, rollovers, appended, dropped, rolled_from,
                   last>>

\* app.run, line 193
AppRun ==
    /\ proc = "main"
    /\ th[0].pc = "idle"
    /\ main_i = Len(MainLines(cfg))
    /\ proc' = "serving"
    /\ UNCHANGED <<cfg, rolls_empty, max_bytes, handler, files, lock, th, main_i, started,
                   resp, acquired, rollovers, appended, dropped, rolled_from,
                   last>>

(***************************************************************************)
(* POST /webhook, lines 81-123, on request thread t.                       *)
(***************************************************************************)
\* lines 84-116, or 84-122 when an exception is raised: the request is
\* parsed and formatted and the logger is called; the status is the one of
\* the return that follows the call (line 118 or 123)
Receive(t, req) ==
    /\ proc = "serving"
    /\ th[t].pc = "idle"
    /\ started < MaxRequests
    /\ started' = started + 1
    /\ LET data == get_data(req)
       IN  IF data.ok
           THEN LogCall(t, started + 1, req, "INFO",
                        format_entry(cfg.LOG_FORMAT, data.data), 200)
           ELSE LogCall(t, started + 1, req, "ERROR",
                        error_entry(data.error), 500)
    /\ UNCHANGED <<cfg, rolls_empty, proc, max_bytes, handler, files, lock, main_i, resp,
                   acquired, rollovers, appended, dropped, rolled_from, last>>

(***************************************************************************)
(* The file handler's handle(record): acquire, emit, release.  emit is     *)
(* shouldRollover, doRollover, write; an exception inside it goes to       *)
(* handleError, which reports on stderr and returns, so the logger call    *)
(* returns normally either way.                                            *)
(***************************************************************************)
\* a handler without its lock
LockIgnored == TRUE

LockFree == lock = -1

\* how many lines of a file have the given text
RECURSIVE Copies(_, _)
Copies(lines, text) ==
    IF lines = <<>> THEN 0
    ELSE (IF Head(lines).text = text THEN 1 ELSE 0) + Copies(Tail(lines), text)

\* handle() takes the lock and emit() asks shouldRollover
Acquire(t) ==
    /\ th[t].pc = "emit"
    /\ LockFree
    /\ lock' = t
    /\ acquired' = Append(acquired, th[t].rid)
    /\ th' = [th EXCEPT
                ![t].pc = IF shouldRollover(handler, files, th[t].line,
                                            rolls_empty)
                          THEN "rollover" ELSE "write",
                ![t].before = getsize(files, 0),
                ![t].copies = Copies(files[0], th[t].line.text)]
    /\ UNCHANGED <<cfg, rolls_empty, proc, max_bytes, handler, files, main_i, started, resp,
                   rollovers, appended, dropped, rolled_from, last>>

\* the calls that wrote the lines of the directory
RidsIn(fs) ==
    {fs[i][j].rid : <<i, j>> \in
        {p \in FileIds \X (1..(MaxRequests + 4)) :
            Exists(fs, p[1]) /\ p[2] <= Len(fs[p[1]])}}

Emitted(t, wrote, fs) ==
    [rid |-> th[t].rid, req |-> th[t].req, level |-> th[t].level,
     status |-> th[t].status, line |-> th[t].line, rolled |-> th[t].rolled,
     wrote |-> wrote, before |-> th[t].before, after |-> getsize(fs, 0),
     alone |-> fs[0] = <<th[t].line>>, copies_before |-> th[t].copies,
     copies |-> Copies(fs[0], th[t].line.text)]

\* emit is over: handle() releases the lock, the logger call returns, and
\* the caller goes on: webhook answers (line 118 or 123), the main program
\* goes to its next line
Return(t, wrote, fs) ==
    /\ lock' = -1
    /\ last' = Emitted(t, wrote, fs)
    /\ th' = [th EXCEPT ![t] = Idle]
    /\ IF t = 0
       THEN main_i' = main_i + 1 /\ UNCHANGED resp
       ELSE resp' = [resp EXCEPT ![th[t].rid] = th[t].status]
            /\ UNCHANGED main_i

DoRollover(t) ==
    /\ th[t].pc = "rollover"
    /\ files' = doRollover(handler, files)
    /\ rollovers' = rollovers + 1
    /\ appended' = IF handler.backupCount > 0 THEN 0 ELSE appended
    /\ dropped' = dropped \cup (RidsIn(files) \ RidsIn(files'))
    /\ rolled_from' = files
    /\ th' = [th EXCEPT
                ![t].pc = after_rollover(handler, files', th[t].line,
                                         rolls_empty),
                ![t].rolled = th[t].rolled + 1]
    /\ UNCHANGED <<cfg, rolls_empty, proc, max_bytes, handler, lock, main_i, started, resp,
                   acquired, last>>

\* the storage refuses the renames of doRollover (read-only, I/O error): the
\* exception ends emit
RolloverFails(t) ==
    /\ proc = "serving"
    /\ th[t].pc = "rollover"
    /\ Return(t, FALSE, files)
    /\ UNCHANGED <<cfg, rolls_empty, proc, max_bytes, handler, files, started, acquired,
                   rollovers, appended, dropped, rolled_from>>

Write(t) ==
    /\ th[t].pc = "write"
    /\ files' = write(files, th[t].line)
    /\ appended' = appended + Bytes(th[t].line)
    /\ Return(t, TRUE, files')
    /\ UNCHANGED <<cfg, rolls_empty, proc, max_bytes, handler, started, acquired, rollovers,
                   dropped, rolled_from>>

\* the storage refuses the write (disk full, read-only, I/O error): the
\* exception ends emit
WriteFails(t) ==
    /\ proc = "serving"
    /\ th[t].pc = "write"
    /\ Return(t, FALSE, files)
    /\ UNCHANGED <<cfg, rolls_empty, proc, max_bytes, handler, files, started, acquired,
                   rollovers, appended, dropped, rolled_from>>

(***************************************************************************)
(* GET /stats, lines 156-176: it reads the directory and changes nothing.  *)
(***************************************************************************)
\* a glob of f"{LOG_FILE}*", which matches LOG_FILE too
rotated_files_with_main(fs) == {i \in FileIds : Exists(fs, i)}

\* glob.glob(f"{LOG_FILE}.*")
rotated_files(fs) == {i \in FileIds \ {0} : Exists(fs, i)}

\* the answer of GET /stats
stats(fs) ==
    LET main_size == getsize(fs, 0)
        rotated == Cardinality(rotated_files(fs))
    IN  [main_log_size |-> main_size,
         rotated_files |-> rotated,
         total_files |-> rotated + (IF main_size > 0 THEN 1 ELSE 0)]

Stats ==
    /\ proc = "serving"
    /\ stats(files).main_log_size >= 0
    /\ UNCHANGED vars

Next ==
    \/ SetupLogging
    \/ RunMain
    \/ Serve
    \/ MainLog
    \/ AppRun
    \/ \E t \in Workers, req \in SinkRequests : Receive(t, req)
    \/ \E t \in Threads : Acquire(t)
    \/ \E t \in Threads : DoRollover(t)
    \/ \E t \in Threads : RolloverFails(t)
    \/ \E t \in Threads : Write(t)
    \/ \E t \in Threads : WriteFails(t)
    \/ Stats

Spec == Init /\ [][Next]_vars

(***************************************************************************)
(* parse_size alone: the process is started with rotation enabled and any  *)
(* size string; setup_logging parses it.                                   *)
(***************************************************************************)
ParseConfigs == {Config("detailed", TRUE, size, 1) : size \in SizeStrings}

InitParse == InitWith(ParseConfigs)

NextParse == SetupLogging

SpecParse == InitParse /\ [][NextParse]_vars

(***************************************************************************)
(* webhook alone: one request of any shape under each LOG_FORMAT, served   *)
(* by one thread of an imported application on a storage that works.       *)
(***************************************************************************)
WebhookConfigs ==
    {Config(format, TRUE, <<"1", "0", "0">>, 1) : format \in LogFormats}

InitWebhook == InitWith(WebhookConfigs)

ReceiveFirst(req) ==
    /\ started = 0
    /\ Receive(1, req)

NextWebhook ==
    \/ SetupLogging
    \/ Serve
    \/ \E req \in AllRequests : ReceiveFirst(req)
    \/ Acquire(1)
    \/ DoRollover(1)
    \/ Write(1)

SpecWebhook == InitWebhook /\ [][NextWebhook]_vars

(***************************************************************************)
(* Properties.                                                             *)
(***************************************************************************)
Rotating == handler.kind = "RotatingFileHandler"

\* the configured max size in bytes (small in the sink configurations)
Limit == handler.maxBytes.hi * Limb + handler.maxBytes.lo

\* the backup files present
Backups == {i \in FileIds \ {0} : files[i] # Absent}

\* how many lines of the directory came from call r
RECURSIVE CountRid(_, _)
CountRid(lines, r) ==
    IF lines = <<>> THEN 0
    ELSE (IF Head(lines).rid = r THEN 1 ELSE 0) + CountRid(Tail(lines), r)

RECURSIVE OccurrencesUpTo(_, _)
OccurrencesUpTo(i, r) ==
    IF i < 0 THEN 0
    ELSE (IF files[i] # Absent THEN CountRid(files[i], r) ELSE 0)
         + OccurrencesUpTo(i - 1, r)

Occurrences(r) == OccurrencesUpTo(MaxBackupCount + 1, r)

\* the calls of the lines of the log, oldest first: the highest backup, ...,
\* backup 1, the active file
RECURSIVE LogOrderFrom(_)
LogOrderFrom(i) ==
    IF i < 0 THEN <<>>
    ELSE (IF files[i] # Absent
          THEN [j \in 1..Len(files[i]) |-> files[i][j].rid] ELSE <<>>)
         \o LogOrderFrom(i - 1)

LogOrder == LogOrderFrom(MaxBackupCount + 1)

RECURSIVE IsSubsequence(_, _)
IsSubsequence(a, b) ==
    IF a = <<>> THEN TRUE
    ELSE IF b = <<>> THEN FALSE
    ELSE IF Head(a) = Head(b) THEN IsSubsequence(Tail(a), Tail(b))
    ELSE IsSubsequence(a, Tail(b))

Min(a, b) == IF a <= b THEN a ELSE b

----------------------------------------------------------------------------
\* C1, as claimed: with rotation enabled (and a positive max size and at
\* least one backup), a write leaves the active file larger than the max
\* size only if it is the one that crossed the threshold, and a write that
\* crosses the threshold (here: onto a file that is not empty) is not
\* preceded by a rotation: the rotation waits for the next write.
C1_RotationAfterCrossingWrite ==
    (Rotating /\ Limit > 0 /\ handler.backupCount >= 1) =>
        /\ (last.wrote /\ getsize(files, 0) > Limit) =>
              (last.after = getsize(files, 0) /\ last.before <= Limit)
        /\ (last.wrote /\ last.before > 0
                       /\ last.before + Bytes(last.line) > Limit) =>
              last.rolled = 0

\* C1, amended: with rotation enabled, a positive max size and at least one
\* backup, the active file holds a single line or its size is below the max
\* size plus the bytes that the encoding of its last line adds to that
\* line's character count; the rotation is performed before the write that
\* would take a file that is not empty to the threshold, and before no
\* write that stays below it.
C1_RotationBeforeCrossingWrite ==
    (Rotating /\ Limit > 0 /\ handler.backupCount >= 1) =>
        /\ \/ Len(files[0]) <= 1
           \/ getsize(files, 0) - files[0][Len(files[0])].extra < Limit
        /\ (last.wrote /\ last.before > 0
                       /\ last.before + Chars(last.line) >= Limit) =>
              last.rolled = 1
        /\ (last.wrote /\ last.before + Chars(last.line) < Limit) =>
              last.rolled = 0

\* a second line was written without a rotation and left the file above the
\* max size
C1_Witness ==
    /\ Rotating /\ Limit > 0 /\ handler.backupCount >= 1
    /\ last.wrote /\ last.rolled = 0
    /\ Len(files[0]) >= 2
    /\ getsize(files, 0) > Limit

----------------------------------------------------------------------------
\* the backups are LOG_FILE.1 .. LOG_FILE.k, k <= BACKUP_COUNT
BackupsContiguous == \E k \in 0..handler.backupCount : Backups = 1..k

\* the last rotation moved the current file to index 1 and every backup up
\* by one index
ShiftedByLastRollover ==
    /\ files[1] = rolled_from[0]
    /\ \A i \in 1..(handler.backupCount - 1) :
          rolled_from[i] # Absent => files[i + 1] = rolled_from[i]

\* C2, as claimed: the backups are exactly LOG_FILE.1 .. LOG_FILE.k with
\* k <= BACKUP_COUNT, and every rotation moves the current file to index 1
\* and each backup up by one index, the one beyond BACKUP_COUNT being dropped.
C2_BackupChain ==
    /\ BackupsContiguous
    /\ rollovers > 0 => ShiftedByLastRollover

\* C2, amended: the same for BACKUP_COUNT >= 1; with BACKUP_COUNT = 0 a
\* rotation keeps no backup at all.
C2_BackupChainWithBackups ==
    /\ BackupsContiguous
    /\ (rollovers > 0 /\ handler.backupCount >= 1) => ShiftedByLastRollover
    /\ handler.backupCount = 0 => Backups = {}

\* three rotations or more with BACKUP_COUNT = 2: two backups, the newest at
\* index 1
C2_Witness ==
    /\ handler.backupCount = 2
    /\ rollovers >= 3
    /\ Backups = {1, 2}
    /\ files[1] = rolled_from[0]
    /\ files[1] # <<>>

----------------------------------------------------------------------------
\* C3, as claimed: every request answered 200 has its line in the log
\* exactly once (or had it until a rotation dropped the oldest backup), the
\* lines are in the order in which the calls took the handler's lock, and
\* only the holder of the lock is between its size check and its write.
C3_AcceptedAppearsOnce ==
    /\ \A r \in Requests :
          resp[r] = 200 => (Occurrences(r) = 1 \/ r \in dropped)
    /\ IsSubsequence(LogOrder, acquired)
    /\ \A t \in Threads : th[t].pc \in {"rollover", "write"} => lock = t

----------------------------------------------------------------------------
\* C4, as claimed: a webhook request whose line the storage refused is
\* answered 500.
C4_WriteFailureAnswered500 ==
    (last.rid \in Requests /\ ~last.wrote) => last.status = 500

----------------------------------------------------------------------------
Decodable(req) == req.body.kind # "undecodable"

\* C5, as claimed: a request whose body is decodable is answered 200 and
\* has exactly one notification line in the log.
C5_DecodableAnswered200 ==
    (last.rid \in Requests /\ Decodable(last.req)) =>
        /\ last.status = 200
        /\ last.level = "INFO"
        /\ Occurrences(last.rid) = 1

----------------------------------------------------------------------------
KB == <<"K", "B">>

MB == <<"M", "B">>

GB == <<"G", "B">>

\* the last two characters, upper case
SuffixOf(s) == IF Len(s) >= 2 THEN Upper(SubSeq(s, Len(s) - 1, Len(s))) ELSE <<>>

HasSuffix(s) == SuffixOf(s) \in {KB, MB, GB}

Trim(s) == RStrip(LStrip(s))

AllDigits(s) == s # <<>> /\ \A i \in 1..Len(s) : IsDigit(s[i])

\* an optional sign and decimal digits
IsInteger(s) ==
    \/ AllDigits(s)
    \/ s # <<>> /\ Head(s) \in {"-", "+"} /\ AllDigits(Tail(s))

\* the same with underscores between the digits left out
WithoutUnderscores(s) ==
    IF \E i \in 1..Len(s) :
          /\ s[i] = "_"
          /\ (i = 1 \/ i = Len(s) \/ ~IsDigit(s[i - 1]) \/ ~IsDigit(s[i + 1]))
    THEN s
    ELSE SelectSeq(s, LAMBDA c : c # "_")

\* n, n * 1024, n * 1024^2 or n * 1024^3 as an exact integer
ExpectedBytes(n, suffix) ==
    CASE suffix = KB -> Big(n * 1024)
      [] suffix = MB -> [hi |-> n, lo |-> 0]
      [] suffix = GB -> [hi |-> n * 1024, lo |-> 0]
      [] OTHER -> Big(n)

\* what is claimed of the size string whose number part is num
ParsedAs(num, suffix) ==
    /\ AllDigits(num) =>
          max_bytes = Value(ExpectedBytes(DecimalValue(num), suffix))
    /\ ~IsInteger(num) => ~max_bytes.ok

\* the same, the number part being read as Python reads an integer
ParsedAsLiteral(num, suffix) ==
    /\ AllDigits(num) =>
          max_bytes = Value(ExpectedBytes(DecimalValue(num), suffix))
    /\ ~IsInteger(WithoutUnderscores(num)) => ~max_bytes.ok
    /\ IsInteger(WithoutUnderscores(num)) => max_bytes.ok

\* C6, as claimed: the size string is trimmed of surrounding whitespace;
\* then N followed by KB, MB or GB in any case, or N alone, gives N * 1024,
\* N * 1024^2, N * 1024^3 or N, and a number part that is not an integer
\* gives an error.
C6_ParseTrimmed ==
    proc # "boot" =>
        LET t == Trim(cfg.MAX_LOG_SIZE)
        IN  IF HasSuffix(t)
            THEN ParsedAs(DropLast2(t), SuffixOf(t))
            ELSE ParsedAs(t, <<>>)

\* C6, amended: the suffix is looked for at the very end of the string, and
\* whitespace is ignored around the number only: a string with whitespace
\* after its suffix gives an error.  The number is an integer as Python
\* writes one: a sign and single underscores between digits are accepted.
C6_ParseUntrimmed ==
    proc # "boot" =>
        LET s == cfg.MAX_LOG_SIZE
        IN  IF HasSuffix(s)
            THEN ParsedAsLiteral(Trim(DropLast2(s)), SuffixOf(s))
            ELSE ParsedAsLiteral(Trim(s), <<>>)

\* "10mb" was parsed to 10 * 1024^2
C6_Witness ==
    /\ proc = "loaded"
    /\ cfg.MAX_LOG_SIZE = <<"1", "0", "m", "b">>
    /\ max_bytes = Value([hi |-> 10, lo |-> 0])

----------------------------------------------------------------------------
\* the first of the keys present among the payload's members, else default
RECURSIVE FirstPresent(_, _, _)
FirstPresent(items, keys, default) ==
    IF keys = <<>> THEN default
    ELSE IF \E i \in 1..Len(items) : items[i][1] = Head(keys)
    THEN items[CHOOSE i \in 1..Len(items) : items[i][1] = Head(keys)][2]
    ELSE FirstPresent(items, Tail(keys), default)

\* the members of the payload a request is read as
PayloadOf(req) ==
    IF req.content_type = "application/json" THEN req.body.items
    ELSE << <<"message", req.body.text>> >>

RecordContainer(req) == FirstPresent(PayloadOf(req), <<"container">>, "unknown")

RecordKeyword(req) ==
    FirstPresent(PayloadOf(req), <<"keyword", "keywords">>, "unknown")

RecordMessage(req) ==
    FirstPresent(PayloadOf(req), <<"message", "title", "body">>, "No message")

\* a request thread is inside logger.info(log_entry)
Logging(t) == th[t].pc # "idle" /\ th[t].level = "INFO"

DetailedMode == cfg.LOG_FORMAT \notin {"simple", "json"}

\* C7, as claimed: under detailed, and under any LOG_FORMAT other than
\* simple and json, the line handed to the logger is
\* "{container} | {keyword} | {message}".
C7_DetailedIsBare ==
    \A t \in Workers :
        (Logging(t) /\ DetailedMode) =>
            th[t].entry = RecordContainer(th[t].req) \o " | "
                          \o RecordKeyword(th[t].req) \o " | "
                          \o RecordMessage(th[t].req)

\* C7, amended: under detailed, and under any LOG_FORMAT other than simple
\* and json, the line handed to the logger is
\* "Container: {container} | Keyword: {keyword} | Message: {message}";
\* container=nginx, keyword=error, message="disk full" gives
\* "Container: nginx | Keyword: error | Message: disk full".
C7_DetailedIsLabelled ==
    \A t \in Workers :
        (Logging(t) /\ DetailedMode) =>
            /\ th[t].entry = "Container: " \o RecordContainer(th[t].req)
                             \o " | Keyword: " \o RecordKeyword(th[t].req)
                             \o " | Message: " \o RecordMessage(th[t].req)
            /\ th[t].req = Scenario1 =>
                  th[t].entry =
                      "Container: nginx | Keyword: error | Message: disk full"

\* the request of scenario 1 is being logged under a LOG_FORMAT the code
\* does not name
C7_Witness ==
    /\ cfg.LOG_FORMAT = "fancy"
    /\ Logging(1)
    /\ th[1].req = Scenario1
    /\ th[1].pc = "write"

----------------------------------------------------------------------------
\* C8, as claimed: GET /stats answers the size of the active file and the
\* number of rotated files: 0 and 0 before anything is written, one rotated
\* file after exactly one rotation.
C8_StatsAfterRotations ==
    proc = "serving" =>
        /\ stats(files).main_log_size = appended
        /\ stats(files).rotated_files = Cardinality(Backups)
        /\ acquired = <<>> =>
              (stats(files).main_log_size = 0 /\ stats(files).rotated_files = 0)
        /\ rollovers = 1 => stats(files).rotated_files = 1

\* C8, amended: the same, with one rotated file after exactly one rotation
\* when BACKUP_COUNT >= 1, and in general as many rotated files as
\* rotations, up to BACKUP_COUNT: none when BACKUP_COUNT = 0.
C8_StatsAfterRotationsWithBackups ==
    proc = "serving" =>
        /\ stats(files).main_log_size = appended
        /\ stats(files).rotated_files = Cardinality(Backups)
        /\ acquired = <<>> =>
              (stats(files).main_log_size = 0 /\ stats(files).rotated_files = 0)
        /\ stats(files).rotated_files = Min(rollovers, handler.backupCount)

\* exactly one rotation has happened and a line was written after it
C8_Witness ==
    /\ proc = "serving"
    /\ rollovers = 1
    /\ stats(files).rotated_files = 1
    /\ stats(files).main_log_size > 0

----------------------------------------------------------------------------
AtMostOneRollover ==
    /\ last.rolled <= 1
    /\ \A t \in Threads : th[t].rolled <= 1

\* C9, as claimed: an append rotates at most once, and a line whose encoded
\* size alone exceeds the (positive) max size is written to an empty active
\* file, freshly rotated if the file held something.
C9_OversizedLineAlone ==
    (Rotating /\ Limit > 0) =>
        /\ AtMostOneRollover
        /\ (last.wrote /\ Bytes(last.line) > Limit) =>
              (last.alone /\ (last.before > 0 => last.rolled = 1))

\* C9, amended: an append rotates at most once; with BACKUP_COUNT >= 1, a
\* line whose character count with its newline reaches the positive max size
\* is written to an empty active file, freshly rotated if the file held
\* something.  With BACKUP_COUNT = 0 the rotation empties nothing and the
\* line follows what the file holds.
C9_OversizedLineAloneWithBackups ==
    /\ AtMostOneRollover
    /\ (Rotating /\ Limit > 0 /\ handler.backupCount >= 1) =>
          ((last.wrote /\ Chars(last.line) >= Limit) =>
              (last.alone /\ (last.before > 0 => last.rolled = 1)))

\* an oversized line was appended to a file that held a line: one rotation,
\* and the line is alone in the new file
C9_Witness ==
    /\ Rotating /\ Limit > 0 /\ handler.backupCount >= 1
    /\ last.wrote
    /\ Chars(last.line) > Limit
    /\ last.before > 0
    /\ last.rolled = 1
    /\ last.alone

----------------------------------------------------------------------------
\* C10: with LOG_ROTATION false MAX_LOG_SIZE is not parsed (a value that
\* parse_size rejects does not stop the start), nothing is ever rotated, no
\* backup exists and the active file only grows; with rotation enabled, a
\* line appended while the file stays below the threshold is appended
\* without a rotation: appended to one copy of itself, it leaves two.
C10_NoRotationWhenDisabledOrBelow ==
    /\ (~cfg.LOG_ROTATION /\ proc # "boot") =>
          /\ proc # "failed"
          /\ max_bytes = NotParsed
          /\ rollovers = 0
          /\ Backups = {}
          /\ getsize(files, 0) = appended
          /\ last.rolled = 0
          /\ last.after >= last.before
          /\ last.wrote => last.after = last.before + Bytes(last.line)
    /\ (Rotating /\ last.wrote /\ last.before + Chars(last.line) < Limit) =>
          /\ last.rolled = 0
          /\ last.copies = last.copies_before + 1
          /\ last.copies_before = 1 => last.copies = 2

\* rotation is disabled, MAX_LOG_SIZE is one that parse_size rejects, and
\* the file has grown past every size of the sink configurations
C10_Witness ==
    /\ ~cfg.LOG_ROTATION
    /\ cfg.MAX_LOG_SIZE = BadSize
    /\ proc = "serving"
    /\ getsize(files, 0) > 170
    /\ Backups = {}

\* rotation is enabled and the same line was appended twice without a
\* rotation
C10_TwiceReached ==
    /\ Rotating
    /\ last.wrote /\ last.rolled = 0
    /\ last.copies_before = 1 /\ last.copies = 2
====
